---- MODULE Spec2Model ----
(***************************************************************************)
(* Model of src/src/pipelines/main.py: the commands train_model, optimize,  *)
(* load_artifacts and predict_tag, the MLflow run registry they write and   *)
(* read, and the three files of the config directory (args.json,            *)
(* run_id.txt, performance.json).                                           *)
(*                                                                          *)
(* Commands run one at a time (one CLI process, no threads).  A command is  *)
(* split into steps only where an exception can leave it half done.         *)
(* An absent value (Python None, a file that does not exist) is the empty   *)
(* sequence <<>>; a present value v is <<v>>.                               *)
(***************************************************************************)
EXTENDS Integers, Sequences, FiniteSets, TLC

VARIABLES
    pc,               \* position of the running command, "idle" between commands
    registry,         \* MLflow tracking store: run id -> run
    run_id_txt,       \* config/run_id.txt, the current run pointer
    performance_json, \* config/performance.json, the performance snapshot
    args_json,        \* the file at args_fp (config/args.json), as JSON
    run,              \* locals of train_model: <<>> or <<[run_id, test_run, args, performance]>>
    num_trials,       \* optimize's num_trials
    args,             \* optimize's args Namespace: <<>> or <<dict>>
    trials,           \* optimize's study: the trials in order of their number
    result            \* what the last command returned or raised, until the process exits

vars == <<pc, registry, run_id_txt, performance_json, args_json, run,
          num_trials, args, trials, result>>

(***************************************************************************)
(* Bounds of the exploration.                                               *)
(***************************************************************************)
MaxRuns == 2        \* train_model calls explored
MaxPerf == 2        \* performance reports: overall f1 in 1..MaxPerf
MaxTrials == 6      \* num_trials is drawn from 0..MaxTrials
NumCandidates == 3  \* hyperparameter candidates a trial can sample
NumEpochs == 6      \* epochs (intermediate reports) of one complete trial

(***************************************************************************)
(* Python values and their JSON form.                                       *)
(***************************************************************************)
PyInt(n) == [type |-> "int", val |-> n]
PyFloat(n) == [type |-> "float", val |-> n]
NpInt(n) == [type |-> "numpy.int64", val |-> n]
NpFloat(n) == [type |-> "numpy.float64", val |-> n]

\* Python's == on numbers: the numeric value decides, not the class.
PyEq(a, b) == a.val = b.val

\* a == b on two dicts
DictEq(a, b) ==
    /\ DOMAIN a = DOMAIN b
    /\ \A k \in DOMAIN a : PyEq(a[k], b[k])

\* NumpyEncoder.default: a numpy scalar becomes the plain JSON number.
NumpyEncoder(v) ==
    IF v.type \in {"int", "numpy.int64"}
    THEN [json |-> "integer", val |-> v.val]
    ELSE [json |-> "real", val |-> v.val]

\* json.dump without cls: int and float (numpy.float64 is a float) are written.
JsonDefault(v) ==
    IF v.type = "int"
    THEN [json |-> "integer", val |-> v.val]
    ELSE [json |-> "real", val |-> v.val]

\* json.load of one number
JsonLoad(j) == IF j.json = "integer" THEN PyInt(j.val) ELSE PyFloat(j.val)

\* utils.save_dict(d, fp, cls=NumpyEncoder): the file's content
save_dict_np(d) == [k \in DOMAIN d |-> NumpyEncoder(d[k])]

\* utils.save_dict(d, fp): the file's content
save_dict(d) == [k \in DOMAIN d |-> JsonDefault(d[k])]

\* utils.load_dict(fp) of a file with content f
load_dict(f) == [k \in DOMAIN f |-> JsonLoad(f[k])]

(***************************************************************************)
(* The run registry (MLflow tracking store and artifact store).             *)
(***************************************************************************)
ArgsPath == "artifacts/args.json"
LabelEncoderPath == "artifacts/label_encoder.json"
VectorizerPath == "artifacts/vectorizer.pkl"
PerformancePath == "artifacts/performance.json"
ModelPath == "model/model.pkl"

NoFiles == [p \in {} |-> <<>>]

\* dir with the file at path written (or overwritten) with content
WriteFile(dir, path, content) ==
    [p \in DOMAIN dir \cup {path} |-> IF p = path THEN content ELSE dir[p]]

\* A run as mlflow.start_run creates it.
NewRun == [status |-> "RUNNING", params |-> <<>>, metrics |-> <<>>,
           artifacts |-> NoFiles]

\* an identifier that does not depend on the runs made so far (as one derived
\* from run_name would be)
NewRunIdReused(reg) == 1

\* mlflow.active_run().info.run_id of a run started now: a fresh identifier.
NewRunId(reg) == Cardinality(DOMAIN reg) + 1

\* mlflow.start_run: the store with the new run under run_id
start_run(reg, run_id) ==
    [r \in DOMAIN reg \cup {run_id} |-> IF r = run_id THEN NewRun ELSE reg[r]]

\* joblib.dump / joblib.load (and mlflow.sklearn.log_model's model.pkl)
Pickle(obj) == [pickle |-> obj]
Unpickle(bytes) == bytes.pickle

\* LabelEncoder.save / LabelEncoder.load
LabelEncoderSave(obj) == [class_to_index |-> obj]
LabelEncoderLoad(f) == f.class_to_index

(***************************************************************************)
(* train_model                                                              *)
(***************************************************************************)
Run == run[1]

\* The objects train.train builds; each is the one of this training.
Trained(kind, run_id) == [object |-> kind, training |-> run_id]

\* The args train.train returns: the ones given, or the same values as numpy
\* scalars (runtime-resolved values).
TrainArgs(a) ==
    { a, [k \in DOMAIN a |-> IF a[k].type = "int" THEN NpInt(a[k].val)
                                                  ELSE NpFloat(a[k].val)] }

\* lines 80-84: load the args, open a run
TrainModelStart ==
    /\ pc = "idle"
    /\ Cardinality(DOMAIN registry) < MaxRuns
    /\ \E test_run \in BOOLEAN :
         LET run_id == NewRunId(registry) IN
         /\ registry' = start_run(registry, run_id)
         /\ run' = << [run_id |-> run_id, test_run |-> test_run,
                       args |-> load_dict(args_json), performance |-> <<>>] >>
    /\ pc' = "train"
    /\ UNCHANGED <<run_id_txt, performance_json, args_json, num_trials, args,
                   trials, result>>

\* lines 85-87: train.train returns the artifacts
Train ==
    /\ pc = "train"
    /\ \E a \in TrainArgs(Run.args), f1 \in 1..MaxPerf :
         run' = << [Run EXCEPT !.args = a,
                          !.performance = <<[overall_f1 |-> PyFloat(f1)]>>] >>
    /\ pc' = "log_metrics"
    /\ UNCHANGED <<registry, run_id_txt, performance_json, args_json,
                   num_trials, args, trials, result>>

\* lines 90-94: mlflow.log_metrics, mlflow.log_params
LogMetrics ==
    /\ pc = "log_metrics"
    /\ registry' = [registry EXCEPT ![Run.run_id].metrics = Run.performance,
                                    ![Run.run_id].params = <<Run.args>>]
    /\ pc' = "log_artifacts"
    /\ UNCHANGED <<run_id_txt, performance_json, args_json, run, num_trials,
                   args, trials, result>>

\* lines 97-107: the four files staged in the temporary directory
StagedArtifacts(r) ==
    LET d1 == WriteFile(NoFiles, ArgsPath, save_dict_np(r.args))
        d2 == WriteFile(d1, LabelEncoderPath,
                        LabelEncoderSave(Trained("label_encoder", r.run_id)))
        d3 == WriteFile(d2, VectorizerPath,
                        Pickle(Trained("vectorizer", r.run_id)))
    IN  WriteFile(d3, PerformancePath,
                  save_dict(r.performance[1]))

\* lines 97-107: mlflow.log_artifacts(dp, artifact_path="artifacts")
LogArtifacts ==
    /\ pc = "log_artifacts"
    /\ registry' = [registry EXCEPT ![Run.run_id].artifacts = StagedArtifacts(Run)]
    /\ pc' = "log_model"
    /\ UNCHANGED <<run_id_txt, performance_json, args_json, run, num_trials,
                   args, trials, result>>

\* the path mlflow.sklearn.log_model(model, "model") writes the model to
LoggedModelPath == ModelPath

\* line 108, then the end of the with block: the run is FINISHED
LogModel ==
    /\ pc = "log_model"
    /\ registry' = [registry EXCEPT
         ![Run.run_id].artifacts =
             WriteFile(@, LoggedModelPath, Pickle(Trained("model", Run.run_id))),
         ![Run.run_id].status = "FINISHED"]
    /\ pc' = "save_run_id"
    /\ UNCHANGED <<run_id_txt, performance_json, args_json, run, num_trials,
                   args, trials, result>>

Raised(error) == [error |-> error, value |-> <<>>]
Returned(v) == [error |-> "", value |-> <<v>>]

\* lines 82-108: an exception inside the with block (train.train raises, the
\* tracking store cannot be written) ends the run as FAILED and leaves
\* train_model
TrainModelRaises ==
    /\ pc \in {"train", "log_metrics", "log_artifacts", "log_model"}
    /\ registry' = [registry EXCEPT ![Run.run_id].status = "FAILED"]
    /\ result' = << [call |-> "train_model", run_id |-> <<>>,
                    out |-> Raised("Exception")] >>
    /\ run' = <<>>
    /\ pc' = "exit"
    /\ UNCHANGED <<run_id_txt, performance_json, args_json, num_trials, args,
                   trials>>

\* the config files written whatever test_run is
SavesToConfigAlways(r) == TRUE

\* whether train_model goes on to write the config files (line 111)
SavesToConfig(r) == ~r.test_run

\* lines 111-112: a test run returns; otherwise run_id.txt is written
SaveRunId ==
    /\ pc = "save_run_id"
    /\ IF SavesToConfig(Run)
       THEN /\ run_id_txt' = <<Run.run_id>>
            /\ pc' = "save_performance"
            /\ UNCHANGED <<run, result>>
       ELSE /\ result' = << [call |-> "train_model", run_id |-> <<>>,
                    out |-> Returned("None")] >>
            /\ run' = <<>>
            /\ pc' = "exit"
            /\ UNCHANGED run_id_txt
    /\ UNCHANGED <<registry, performance_json, args_json, num_trials, args, trials>>

\* lines 113-115: performance.json is written
SavePerformance ==
    /\ pc = "save_performance"
    /\ performance_json' = <<save_dict(Run.performance[1])>>
    /\ result' = << [call |-> "train_model", run_id |-> <<>>,
                    out |-> Returned("None")] >>
    /\ run' = <<>>
    /\ pc' = "exit"
    /\ UNCHANGED <<registry, run_id_txt, args_json, num_trials, args, trials>>

\* between line 112 and line 113: the process is interrupted, or the second
\* write raises
SavePerformanceInterrupted ==
    /\ pc = "save_performance"
    /\ result' = << [call |-> "train_model", run_id |-> <<>>,
                    out |-> Raised("Exception")] >>
    /\ run' = <<>>
    /\ pc' = "exit"
    /\ UNCHANGED <<registry, run_id_txt, performance_json, args_json,
                   num_trials, args, trials>>

\* the process ends: the command's locals and what it returned or raised are gone
Exit ==
    /\ pc = "exit"
    /\ pc' = "idle"
    /\ result' = <<>>
    /\ run' = <<>>
    /\ num_trials' = 0
    /\ args' = <<>>
    /\ trials' = <<>>
    /\ UNCHANGED <<registry, run_id_txt, performance_json, args_json>>

(***************************************************************************)
(* load_artifacts, predict_tag                                              *)
(***************************************************************************)
\* the model read from beside the other four files (where the line
\* commented out at 105 wrote it)
LoadedModelPathArtifacts == "artifacts/model.pkl"

\* the path load_artifacts reads the model from (line 186)
LoadedModelPath == ModelPath

\* lines 173-194 for a resolved run_id: download the run's artifacts, read the
\* five files in the order of the code; the first one that is absent raises
LoadRun(reg, run_id) ==
    IF run_id \notin DOMAIN reg
    THEN Raised("MlflowException")
    ELSE LET dp == reg[run_id].artifacts IN
         IF \E p \in {ArgsPath, VectorizerPath, LabelEncoderPath,
                      PerformancePath, LoadedModelPath} : p \notin DOMAIN dp
         THEN Raised("FileNotFoundError")
         ELSE Returned([args |-> load_dict(dp[ArgsPath]),
                        label_encoder |-> LabelEncoderLoad(dp[LabelEncoderPath]),
                        vectorizer |-> Unpickle(dp[VectorizerPath]),
                        model |-> Unpickle(dp[LoadedModelPath]),
                        performance |-> load_dict(dp[PerformancePath])])

\* lines 170-171 (and 205-206): no run_id given, read run_id.txt
ResolveRunId(pointer, run_id) == IF run_id = <<>> THEN pointer ELSE run_id

\* without a run identifier and without run_id.txt, fall back to the last run
\* of the registry
load_artifacts_latest(pointer, reg, run_id) ==
    LET id == ResolveRunId(pointer, run_id) IN
    IF id # <<>> THEN LoadRun(reg, id[1])
    ELSE IF DOMAIN reg = {} THEN Raised("FileNotFoundError")
    ELSE LoadRun(reg, CHOOSE r \in DOMAIN reg : \A q \in DOMAIN reg : q <= r)

\* load_artifacts(run_id) with run_id.txt = pointer and the registry reg
load_artifacts(pointer, reg, run_id) ==
    LET id == ResolveRunId(pointer, run_id) IN
    IF id = <<>> THEN Raised("FileNotFoundError") ELSE LoadRun(reg, id[1])

\* predict.predict(texts=[text], artifacts): one prediction, made with the
\* bundle's vectorizer, model and label encoder
predict(artifacts) ==
    [with |-> <<artifacts.vectorizer, artifacts.model, artifacts.label_encoder>>]

\* predict_tag(text, run_id)
predict_tag(pointer, reg, run_id) ==
    LET id == ResolveRunId(pointer, run_id) IN
    IF id = <<>> THEN Raised("FileNotFoundError")
    ELSE LET artifacts == load_artifacts(pointer, reg, id) IN
         IF artifacts.error # "" THEN artifacts
         ELSE Returned(predict(artifacts.value[1]))

\* the run_id arguments explored: none, every run of the registry, and 0, an
\* identifier no run has
RunIdArgs == {<<>>} \cup {<<r>> : r \in DOMAIN registry \cup {0}}

LoadArtifacts ==
    /\ pc = "idle"
    /\ \E run_id \in RunIdArgs :
         result' = << [call |-> "load_artifacts", run_id |-> run_id,
                       out |-> load_artifacts(run_id_txt, registry, run_id)] >>
    /\ pc' = "exit"
    /\ UNCHANGED <<registry, run_id_txt, performance_json, args_json, run,
                   num_trials, args, trials>>

PredictTag ==
    /\ pc = "idle"
    /\ \E run_id \in RunIdArgs :
         result' = << [call |-> "predict_tag", run_id |-> run_id,
                       out |-> predict_tag(run_id_txt, registry, run_id)] >>
    /\ pc' = "exit"
    /\ UNCHANGED <<registry, run_id_txt, performance_json, args_json, run,
                   num_trials, args, trials>>

(***************************************************************************)
(* optimize                                                                 *)
(***************************************************************************)
\* a pruner that starts one trial too early
n_startup_trials_early == 5 - 1

\* optuna.pruners.MedianPruner(n_startup_trials=5, n_warmup_steps=5)
n_startup_trials == 5
n_warmup_steps == 5

\* The hyperparameter values a trial can sample.
Candidates == 1..NumCandidates

\* train.objective for a trial that sampled candidate c: the value it returns,
\* the user attribute f1 it sets, and the value it reports at each step.  The
\* three are independent of each other: candidates tie and disagree on them.
objective_value(c) == 1 + ((c \div 2) % 2)
objective_f1(c) == 1 + (c % 2)
intermediate_value(c, step) == 1 + ((c + 1) % 2)

\* {**a, **b}
Merge(a, b) ==
    [k \in DOMAIN a \cup DOMAIN b |-> IF k \in DOMAIN b THEN b[k] ELSE a[k]]

\* study.ask: a new RUNNING trial with the sampled parameters
NewTrial(number, c) ==
    [number |-> number, state |-> "RUNNING", candidate |-> c,
     params |-> [learning_rate |-> PyFloat(c)],
     intermediate_values |-> <<>>, value |-> <<>>, user_attrs_f1 |-> <<>>]

RECURSIVE Insert(_, _)
Insert(x, sorted) ==
    IF sorted = <<>> THEN <<x>>
    ELSE IF x <= Head(sorted) THEN <<x>> \o sorted
    ELSE <<Head(sorted)>> \o Insert(x, Tail(sorted))

RECURSIVE Sort(_)
Sort(seq) == IF seq = <<>> THEN <<>> ELSE Insert(Head(seq), Sort(Tail(seq)))

\* twice numpy's 50th percentile of a non-empty sequence of values
Median2(values) ==
    LET sorted == Sort(values)
        n == Len(sorted)
    IN  IF n % 2 = 1 THEN 2 * sorted[(n + 1) \div 2]
        ELSE sorted[n \div 2] + sorted[n \div 2 + 1]

RECURSIVE Max(_)
Max(seq) ==
    IF Len(seq) = 1 THEN seq[1]
    ELSE LET m == Max(Tail(seq)) IN IF Head(seq) >= m THEN Head(seq) ELSE m

\* the COMPLETE trials of a study, in order of their number
Completed(ts) == SelectSeq(ts, LAMBDA t : t.state = "COMPLETE")

\* MedianPruner.prune(study, trial), direction maximize, called by
\* trial.should_prune() after a report
prune(ts, trial) ==
    LET completed == Completed(ts)
        step == Len(trial.intermediate_values) - 1   \* trial.last_step
        at_step == SelectSeq(completed, LAMBDA t : Len(t.intermediate_values) > step)
    IN  /\ Len(completed) >= n_startup_trials
        /\ Len(completed) > 0
        /\ step >= 0
        /\ step >= n_warmup_steps
        /\ at_step # <<>>
        /\ 2 * Max(trial.intermediate_values)
             < Median2([i \in 1..Len(at_step) |-> at_step[i].intermediate_values[step + 1]])

\* study.best_trial over the first k trials: the COMPLETE trial of the greatest
\* value, the earlier one on a tie (the storage replaces its best trial only by
\* a strictly better one); <<>> when no trial is COMPLETE
RECURSIVE BestTrialOf(_, _)
BestTrialOf(ts, k) ==
    IF k = 0 THEN <<>>
    ELSE LET best == BestTrialOf(ts, k - 1)
             t == ts[k]
         IN  IF t.state # "COMPLETE" THEN best
             ELSE IF best = <<>> THEN <<t>>
             ELSE IF best[1].value[1] < t.value[1] THEN <<t>>
             ELSE best

\* with no COMPLETE trial, a trial without parameters instead of an error
best_trial_default(ts) ==
    IF BestTrialOf(ts, Len(ts)) = <<>>
    THEN << [number |-> 0, state |-> "COMPLETE", candidate |-> 0,
             params |-> [k \in {} |-> PyFloat(0)],
             intermediate_values |-> <<>>, value |-> <<0>>,
             user_attrs_f1 |-> <<0>>] >>
    ELSE BestTrialOf(ts, Len(ts))

best_trial(ts) == BestTrialOf(ts, Len(ts))

\* config/args.json as the repository ships it
DefaultArgs == [num_epochs |-> [json |-> "integer", val |-> NumEpochs],
                learning_rate |-> [json |-> "real", val |-> 0]]

Running == trials # <<>> /\ trials[Len(trials)].state = "RUNNING"
Current == trials[Len(trials)]

\* lines 132-143: load the args, create the study.  optimize is explored in
\* the order of train_model_pipeline (lines 222-224), before any train_model
\* call, and from the args.json the repository ships; num_trials is not
\* validated, so 0 is among the inputs.
OptimizeStart ==
    /\ pc = "idle"
    /\ DOMAIN registry = {}
    /\ args_json = DefaultArgs
    /\ \E n \in 0..MaxTrials : num_trials' = n
    /\ args' = <<load_dict(args_json)>>
    /\ trials' = <<>>
    /\ pc' = "study"
    /\ UNCHANGED <<registry, run_id_txt, performance_json, args_json, run, result>>

\* study.optimize, the next trial: sample its parameters
TrialAsk ==
    /\ pc = "study"
    /\ ~Running
    /\ Len(trials) < num_trials
    /\ \E c \in Candidates : trials' = Append(trials, NewTrial(Len(trials), c))
    /\ UNCHANGED <<pc, registry, run_id_txt, performance_json, args_json, run,
                   num_trials, args, result>>

\* one epoch of the trial: trial.report(value, epoch), then
\* trial.should_prune() and optuna.TrialPruned
TrialReport ==
    /\ pc = "study"
    /\ Running
    /\ Len(Current.intermediate_values) < NumEpochs
    /\ LET step == Len(Current.intermediate_values)
           reported == [Current EXCEPT !.intermediate_values =
                           Append(@, intermediate_value(Current.candidate, step))]
       IN  trials' = [trials EXCEPT ![Len(trials)] =
                        IF prune(trials, reported)
                        THEN [reported EXCEPT !.state = "PRUNED"]
                        ELSE reported]
    /\ UNCHANGED <<pc, registry, run_id_txt, performance_json, args_json, run,
                   num_trials, args, result>>

\* the objective returns: the trial is COMPLETE with its value and attributes
TrialComplete ==
    /\ pc = "study"
    /\ Running
    /\ Len(Current.intermediate_values) = NumEpochs
    /\ trials' = [trials EXCEPT ![Len(trials)] =
                    [Current EXCEPT !.state = "COMPLETE",
                                    !.value = <<objective_value(Current.candidate)>>,
                                    !.user_attrs_f1 = <<objective_f1(Current.candidate)>>]]
    /\ UNCHANGED <<pc, registry, run_id_txt, performance_json, args_json, run,
                   num_trials, args, result>>

\* train.objective raises an exception that is not TrialPruned: the trial is
\* FAIL and, catch not being given (lines 144-148), study.optimize raises it
\* again
TrialRaises ==
    /\ pc = "study"
    /\ Running
    /\ trials' = [trials EXCEPT ![Len(trials)].state = "FAIL"]
    /\ result' = << [call |-> "optimize", run_id |-> <<>>,
                     out |-> Raised("Exception")] >>
    /\ pc' = "exit"
    /\ UNCHANGED <<registry, run_id_txt, performance_json, args_json, run,
                   num_trials, args>>

\* lines 150-158: study.best_trial raises ValueError when no trial is
\* COMPLETE; otherwise its params are merged into the args and saved
SaveBestTrial ==
    /\ pc = "study"
    /\ ~Running
    /\ Len(trials) = num_trials
    /\ LET best == best_trial(trials) IN
       IF best = <<>>
       THEN /\ result' = << [call |-> "optimize", run_id |-> <<>>,
                             out |-> Raised("ValueError")] >>
            /\ UNCHANGED args_json
       ELSE /\ args_json' = save_dict_np(Merge(args[1], best[1].params))
            /\ result' = << [call |-> "optimize", run_id |-> <<>>,
                             out |-> Returned("None")] >>
    /\ pc' = "exit"
    /\ UNCHANGED <<registry, run_id_txt, performance_json, run, num_trials,
                   args, trials>>

(***************************************************************************)
(* The specification                                                        *)
(***************************************************************************)
\* No run has been made here.  run_id.txt and performance.json are absent, or
\* came with the checkout and name a run (0) this registry does not hold.
Init ==
    /\ pc = "idle"
    /\ registry = [r \in {} |-> NewRun]
    /\ \/ run_id_txt = <<>> /\ performance_json = <<>>
       \/ run_id_txt = <<0>> /\ performance_json = <<save_dict([overall_f1 |-> PyFloat(0)])>>
    /\ args_json = DefaultArgs
    /\ run = <<>>
    /\ num_trials = 0
    /\ args = <<>>
    /\ trials = <<>>
    /\ result = <<>>

Next ==
    \/ TrainModelStart
    \/ Train
    \/ LogMetrics
    \/ LogArtifacts
    \/ LogModel
    \/ TrainModelRaises
    \/ SaveRunId
    \/ SavePerformance
    \/ SavePerformanceInterrupted
    \/ LoadArtifacts
    \/ PredictTag
    \/ OptimizeStart
    \/ TrialAsk
    \/ TrialReport
    \/ TrialComplete
    \/ TrialRaises
    \/ SaveBestTrial
    \/ Exit

Spec == Init /\ [][Next]_vars

(***************************************************************************)
(* The claims                                                               *)
(***************************************************************************)
Ended(call) == pc = "exit" /\ result # <<>> /\ result[1].call = call
Out == result[1].out

IsComplete(t) == t.state = "COMPLETE"

\* trial k is the first of the COMPLETE trials with the greatest f1
TopByF1(k) ==
    /\ IsComplete(trials[k])
    /\ \A j \in 1..Len(trials) :
         IsComplete(trials[j]) =>
           /\ trials[j].user_attrs_f1[1] <= trials[k].user_attrs_f1[1]
           /\ j < k => trials[j].user_attrs_f1[1] < trials[k].user_attrs_f1[1]

\* C1: when optimize has saved the args, the saved args are the base args with
\* the parameters of the COMPLETE trial of the greatest f1 merged in, the
\* lowest-numbered one among those tied on f1.
C1_BestByF1 ==
    (Ended("optimize") /\ Out.error = "") =>
        \E k \in 1..Len(trials) :
            /\ TopByF1(k)
            /\ args_json = save_dict_np(Merge(args[1], trials[k].params))

\* C2: a PRUNED trial has recorded at least 5 intermediate reports, and at
\* least 5 trials before it are COMPLETE.
C2_PruneAfterWarmupAndStartup ==
    \A k \in 1..Len(trials) :
        trials[k].state = "PRUNED" =>
            /\ Len(trials[k].intermediate_values) >= 5
            /\ Cardinality({j \in 1..(k - 1) : IsComplete(trials[j])}) >= 5

C2_Witness == \E k \in 1..Len(trials) : trials[k].state = "PRUNED"

\* C3: load_artifacts with the identifier of a run train_model persisted
\* returns a bundle of five members: args and performance equal to the ones
\* persisted, and the label encoder, vectorizer and model of that run.
C3_RoundTrip ==
    (/\ Ended("load_artifacts")
     /\ result[1].run_id # <<>>
     /\ result[1].run_id[1] \in DOMAIN registry
     /\ registry[result[1].run_id[1]].status = "FINISHED") =>
        LET id == result[1].run_id[1] IN
        /\ Out.error = ""
        /\ DOMAIN Out.value[1] =
             {"args", "label_encoder", "vectorizer", "model", "performance"}
        /\ DictEq(Out.value[1].args, registry[id].params[1])
        /\ DictEq(Out.value[1].performance, registry[id].metrics[1])
        /\ Out.value[1].label_encoder = Trained("label_encoder", id)
        /\ Out.value[1].vectorizer = Trained("vectorizer", id)
        /\ Out.value[1].model = Trained("model", id)

\* a persisted run whose args are numpy scalars has been loaded
C3_Witness ==
    /\ Ended("load_artifacts")
    /\ result[1].run_id = <<2>>
    /\ 2 \in DOMAIN registry
    /\ registry[2].status = "FINISHED"
    /\ registry[2].params[1].learning_rate.type = "numpy.float64"
    /\ Out.error = ""

NoComplete == \A k \in 1..Len(trials) : ~IsComplete(trials[k])

C5_FailedTrialDoesNotAbort ==
    (Ended("optimize") /\ \E k \in 1..Len(trials) : trials[k].state = "FAIL") =>
        /\ Len(trials) = num_trials
        /\ Out.error # "" <=> NoComplete

\* the exceptions of an unresolved run identifier: open() of an absent
\* run_id.txt, download_artifacts of a run the store does not hold
NotFoundErrors == {"FileNotFoundError", "MlflowException"}

\* C6: load_artifacts and predict_tag without a run identifier raise a
\* not-found error, and return nothing, when run_id.txt is absent or names a
\* run the registry does not hold.
C6_UnresolvedPointerRaises ==
    (/\ Ended("load_artifacts") \/ Ended("predict_tag")
     /\ result[1].run_id = <<>>
     /\ run_id_txt = <<>> \/ run_id_txt[1] \notin DOMAIN registry) =>
        /\ Out.error \in NotFoundErrors
        /\ Out.value = <<>>

\* load_artifacts() was called with run_id.txt absent and runs in the registry
C6_Witness ==
    /\ Ended("load_artifacts")
    /\ result[1].run_id = <<>>
    /\ run_id_txt = <<>>
    /\ \E r \in DOMAIN registry : registry[r].status = "FINISHED"
    /\ Out.error = "FileNotFoundError"

\* the files a full bundle is read from
BundlePaths == {ArgsPath, LabelEncoderPath, VectorizerPath, PerformancePath, ModelPath}

\* C7: load_artifacts of a stored run that lacks one of the five bundle
\* members raises an error that is none of the errors of an unresolved run
\* identifier, and returns no bundle.
C7_IncompleteBundleIsCorruptError ==
    (/\ Ended("load_artifacts")
     /\ result[1].run_id # <<>>
     /\ result[1].run_id[1] \in DOMAIN registry
     /\ \E p \in BundlePaths : p \notin DOMAIN registry[result[1].run_id[1]].artifacts) =>
        /\ Out.value = <<>>
        /\ Out.error # ""
        /\ Out.error \notin NotFoundErrors

\* run id holds params, metrics and the five files, and is FINISHED
Persisted(id) ==
    /\ id \in DOMAIN registry
    /\ registry[id].status = "FINISHED"
    /\ registry[id].params # <<>>
    /\ registry[id].metrics # <<>>
    /\ BundlePaths \subseteq DOMAIN registry[id].artifacts

\* C8: run_id.txt and performance.json change only in the two writes of a
\* train_model call that is no test run and whose run is fully persisted;
\* run_id.txt then names that run.  No other step of train_model (a test run,
\* a failing call) and no step of load_artifacts, predict_tag or optimize
\* changes them.
C8_PointerWrittenOnlyAfterPersistedNonTestRun ==
    [][ (run_id_txt' # run_id_txt \/ performance_json' # performance_json) =>
          /\ pc \in {"save_run_id", "save_performance"}
          /\ ~Run.test_run
          /\ Persisted(Run.run_id)
          /\ run_id_txt' \in {run_id_txt, <<Run.run_id>>} ]_vars

\* a test run has returned after a non-test run wrote the pointer
C8_Witness ==
    /\ Ended("train_model")
    /\ Out.error = ""
    /\ run_id_txt = <<1>>
    /\ Persisted(2)

\* C9: a train_model call opens its run under an identifier no run has yet;
\* no step changes a run other than the one the running train_model call
\* opened, so load_artifacts of such a run returns what it returned before.
C9_RunIdsFreshAndRunsImmutable ==
    [][ /\ \A r \in DOMAIN registry :
             /\ r \in DOMAIN registry'
             /\ (run = <<>> \/ Run.run_id # r) =>
                   /\ registry'[r] = registry[r]
                   /\ LoadRun(registry', r) = LoadRun(registry, r)
        /\ (run = <<>> /\ run' # <<>>) =>
              /\ run'[1].run_id \notin DOMAIN registry
              /\ run'[1].run_id \in DOMAIN registry' ]_vars

\* two runs with identical args and performance are both stored
C9_Witness ==
    /\ DOMAIN registry = {1, 2}
    /\ Persisted(1)
    /\ Persisted(2)
    /\ registry[1].params = registry[2].params
    /\ registry[1].metrics = registry[2].metrics

\* C10: between commands, when run_id.txt names a run of the registry,
\* performance.json is the JSON of that run's performance report.
C10_SnapshotMirrorsPointedRun ==
    (/\ pc = "idle"
     /\ run_id_txt # <<>>
     /\ run_id_txt[1] \in DOMAIN registry) =>
        /\ registry[run_id_txt[1]].metrics # <<>>
        /\ performance_json = <<save_dict(registry[run_id_txt[1]].metrics[1])>>

====
